---------------------------- MODULE Spec2Model ----------------------------
(***************************************************************************)
(* Model of the image commands of src-tauri/src/lib.rs: list_images,       *)
(* resize_image, resize_image_from_data, get_image_info, crop_image and    *)
(* save_as, over a small file system.                                      *)
(*                                                                         *)
(* The geometry of crop_image and save_as is computed in f32 by the code.  *)
(* The model computes it the same way: an f32 is a record [m, e] standing  *)
(* for m * 2^e with a 24-bit mantissa (m = 0, or 2^23 <= m < 2^24), and    *)
(* every operation rounds its exact result to nearest, ties to even.       *)
(* All intermediate integers stay below 2^31.                              *)
(***************************************************************************)
EXTENDS Integers, Sequences, FiniteSets, TLC

(***************************************************************************)
(* f32 arithmetic (IEEE 754 binary32, round to nearest even), for the      *)
(* non-negative finite values the commands compute with.                   *)
(***************************************************************************)
MantBits == 24

Pow2(n) == 2 ^ n

Two23 == Pow2(MantBits - 1)

Two24 == Pow2(MantBits)

RECURSIVE BitLen(_)
BitLen(n) == IF n = 0 THEN 0 ELSE 1 + BitLen(n \div 2)

\* n / 2^k rounded to the nearest integer, ties to even.
RoundShift(n, k) ==
    IF k = 0 THEN n
    ELSE LET q    == n \div Pow2(k)
             r    == n % Pow2(k)
             half == Pow2(k - 1)
         IN  IF r > half \/ (r = half /\ q % 2 = 1) THEN q + 1 ELSE q

F32Zero == [m |-> 0, e |-> 0]

\* mantissa q in 2^23 .. 2^24 after a rounding step: renormalise the carry.
F32Pack(q, e) == IF q = Two24 THEN [m |-> Two23, e |-> e + 1] ELSE [m |-> q, e |-> e]

\* `n as f32` for a u32 n.
F32FromU32(n) ==
    IF n = 0 THEN F32Zero
    ELSE LET bl == BitLen(n)
         IN  IF bl <= MantBits
             THEN [m |-> n * Pow2(MantBits - bl), e |-> bl - MantBits]
             ELSE F32Pack(RoundShift(n, bl - MantBits), bl - MantBits)

\* a * b.  The 48-bit product of the mantissas is held as hi * 2^24 + lo.
F32Mul(a, b) ==
    IF a.m = 0 \/ b.m = 0 THEN F32Zero
    ELSE LET a1 == a.m \div 4096
             a0 == a.m % 4096
             b1 == b.m \div 4096
             b0 == b.m % 4096
             cross == a1 * b0 + a0 * b1
             losum == (cross % 4096) * 4096 + a0 * b0
             hi == a1 * b1 + cross \div 4096 + losum \div Two24
             lo == losum % Two24
         IN  IF hi >= Two23
             THEN F32Pack(IF lo > Two23 \/ (lo = Two23 /\ hi % 2 = 1)
                          THEN hi + 1 ELSE hi,
                          a.e + b.e + MantBits)
             ELSE LET q == 2 * hi + lo \div Two23
                      r == lo % Two23
                      half == Two23 \div 2
                  IN  F32Pack(IF r > half \/ (r = half /\ q % 2 = 1)
                              THEN q + 1 ELSE q,
                              a.e + b.e + MantBits - 1)

\* a + b.
F32Add(a, b) ==
    IF a.m = 0 THEN b
    ELSE IF b.m = 0 THEN a
    ELSE LET big   == IF a.e >= b.e THEN a ELSE b
             small == IF a.e >= b.e THEN b ELSE a
             d     == big.e - small.e
         IN  IF d > MantBits THEN big
             ELSE LET q == small.m \div Pow2(d)
                      r == small.m % Pow2(d)
                      s == big.m + q
                  IN  IF s < Two24
                      THEN F32Pack(IF 2 * r > Pow2(d) \/ (2 * r = Pow2(d) /\ s % 2 = 1)
                                   THEN s + 1 ELSE s,
                                   big.e)
                      ELSE LET t == s \div 2
                               odd == s % 2 = 1
                           IN  F32Pack(IF odd /\ (r > 0 \/ t % 2 = 1)
                                       THEN t + 1 ELSE t,
                                       big.e + 1)

\* floor(r * 2^n / d) and its remainder, one quotient bit at a time.
RECURSIVE LongDiv(_, _, _, _)
LongDiv(q, r, d, n) ==
    IF n = 0 THEN <<q, r>>
    ELSE IF 2 * r >= d THEN LongDiv(2 * q + 1, 2 * r - d, d, n - 1)
                       ELSE LongDiv(2 * q, 2 * r, d, n - 1)

\* a / b, b # 0.
F32Div(a, b) ==
    IF a.m = 0 THEN F32Zero
    ELSE LET n  == IF a.m >= b.m THEN MantBits - 1 ELSE MantBits
             qr == LongDiv(a.m \div b.m, a.m % b.m, b.m, n)
             q  == qr[1]
             r  == qr[2]
         IN  F32Pack(IF 2 * r > b.m \/ (2 * r = b.m /\ q % 2 = 1)
                     THEN q + 1 ELSE q,
                     a.e - b.e - n)

\* f32::round: to the nearest integer, halves away from zero.  The result,
\* an integer-valued f32, is returned as that integer.
F32Round(a) ==
    IF a.e >= 0 THEN a.m * Pow2(a.e)
    ELSE IF -a.e > MantBits THEN 0
    ELSE LET q == a.m \div Pow2(-a.e)
             r == a.m % Pow2(-a.e)
         IN  IF 2 * r >= Pow2(-a.e) THEN q + 1 ELSE q

\* `a as u32` for a >= 0: truncation.
F32ToU32(a) ==
    IF a.e >= 0 THEN a.m * Pow2(a.e)
    ELSE IF -a.e >= MantBits THEN 0
    ELSE a.m \div Pow2(-a.e)

\* The f32 constant 0.5 of the code.
F32Half == [m |-> Two23, e |-> -MantBits]


(***************************************************************************)
(* The image crate, as far as the commands use it.                         *)
(***************************************************************************)

\* floor(log2(n / d)) for n, d >= 1.
RECURSIVE Log2Below(_, _, _)
Log2Below(n, d, j) == IF n * Pow2(j) >= d THEN -j ELSE Log2Below(n, d, j + 1)

Log2Ratio(n, d) == IF n >= d THEN BitLen(n \div d) - 1 ELSE Log2Below(n, d, 1)

\* (r * 2^t) mod d.
RECURSIVE DoubleMod(_, _, _)
DoubleMod(r, d, t) == IF t = 0 THEN r ELSE DoubleMod((2 * r) % d, d, t - 1)

\* ((s as f64) * ((n as f64) / (d as f64))).round() of resize_dimensions.
\* Away from a half the f64 result rounds like the exact s*n/d.  At an exact
\* half k + 1/2 the quotient n/d, when it is not a binary fraction, is rounded
\* at its 53rd bit: rounded up, the product stays at or above the half and
\* the result is k + 1; rounded down by r/(d * 2^t), the product s*n/d -
\* s*r/(d * 2^t) still rounds back to the half only if that error is at most
\* half the spacing of the doubles below k + 1/2.  With s = d the product is
\* within n * 2^-52 of n and rounds to n.
ScaleRound(s, n, d) ==
    IF n = 0 THEN 0
    ELSE IF s = d THEN n
    ELSE LET A == s * n
         IN  IF (2 * A) % d # 0 \/ ((2 * A) \div d) % 2 = 0
             THEN (2 * A + d) \div (2 * d)
             ELSE LET k  == ((2 * A) \div d - 1) \div 2
                      L  == Log2Ratio(n, d)
                      r  == DoubleMod(n % d, d, 52 - L)
                      ex == BitLen(2 * k + 1) - 2
                      sh == (IF k = 0 THEN 2 ELSE 1) + L - ex
                  IN  IF r = 0 \/ 2 * r > d THEN k + 1
                      ELSE IF sh >= 0
                           THEN (IF s * r * Pow2(sh) <= d THEN k + 1 ELSE k)
                           ELSE (IF s * r <= d * Pow2(-sh) THEN k + 1 ELSE k)

Max(a, b) == IF a >= b THEN a ELSE b

\* image::math::utils::resize_dimensions(width, height, nwidth, nheight,
\* fill = false): the largest size of the source's aspect ratio that fits
\* the box nwidth x nheight, never below 1 on a side.
resize_dimensions(width, height, nwidth, nheight) ==
    IF nwidth * height <= nheight * width
    THEN <<Max(ScaleRound(width, nwidth, width), 1),
           Max(ScaleRound(height, nwidth, width), 1)>>
    ELSE <<Max(ScaleRound(width, nheight, height), 1),
           Max(ScaleRound(height, nheight, height), 1)>>

\* DynamicImage::resize(nwidth, nheight, filter): the dimensions of the
\* image it returns.  It keeps the aspect ratio (resize_exact would not).
resize(width, height, nwidth, nheight) ==
    resize_dimensions(width, height, nwidth, nheight)

\* u32 values of 2^31 and more are held as their 32-bit pattern read as a
\* signed number: n < 0 stands for 2^32 + n.  Unsigned a < b on patterns.
U32Lt(a, b) ==
    \/ a >= 0 /\ b >= 0 /\ a < b
    \/ a >= 0 /\ b < 0
    \/ a < 0 /\ b < 0 /\ a < b

U32Min(a, b) == IF U32Lt(b, a) THEN b ELSE a

\* imageops::crop_imm -> crop_dimms: the rectangle is cut to the image.  The
\* result is the rectangle actually taken.
crop_imm(iwidth, iheight, x, y, width, height) ==
    LET x1 == U32Min(x, iwidth)
        y1 == U32Min(y, iheight)
    IN  <<x1, y1, U32Min(width, iwidth - x1), U32Min(height, iheight - y1)>>


(***************************************************************************)
(* The file system and the inputs of the commands.                         *)
(***************************************************************************)

\* Commands run in one behaviour.
MaxOps == 1

\* Largest side a resize request asks for.
MaxTarget == 3

\* A path is <<stem, extension>>; file_name is stem.extension.  An extension
\* is the sequence of its characters, <<>> when the path has none.
PathA == <<"a", <<"p", "n", "g">>>>
PathB == <<"b", <<"J", "P", "G">>>>
PathC == <<"notes", <<"t", "x", "t">>>>
PathD == <<"d", <<"p", "n", "g">>>>
OutIco == <<"o", <<"i", "c", "o">>>>
OutICO == <<"p", <<"I", "C", "O">>>>
OutIcoMixed == <<"q", <<"I", "c", "o">>>>
OutBmp == <<"o", <<"b", "m", "p">>>>
OutNoExt == <<"o", <<>>>>
NoPath == <<"", <<>>>>

\* The paths of the directory the commands work in.
Paths == {PathA, PathB, PathC, PathD, OutIco, OutICO, OutIcoMixed, OutBmp, OutNoExt}

\* Paths the single-target commands are called with.
Targets == {PathA, PathB, OutIco}

\* Destinations of save_as.
Outputs == {OutIco, OutICO, OutIcoMixed, OutBmp, OutNoExt, PathA}

\* The lower-case letter of each upper-case ASCII letter.
LowerOf ==
    [ch \in {"A", "B", "C", "D", "E", "F", "G", "H", "I", "J", "K", "L", "M",
             "N", "O", "P", "Q", "R", "S", "T", "U", "V", "W", "X", "Y", "Z"} |->
        CASE ch = "A" -> "a" [] ch = "B" -> "b" [] ch = "C" -> "c"
          [] ch = "D" -> "d" [] ch = "E" -> "e" [] ch = "F" -> "f"
          [] ch = "G" -> "g" [] ch = "H" -> "h" [] ch = "I" -> "i"
          [] ch = "J" -> "j" [] ch = "K" -> "k" [] ch = "L" -> "l"
          [] ch = "M" -> "m" [] ch = "N" -> "n" [] ch = "O" -> "o"
          [] ch = "P" -> "p" [] ch = "Q" -> "q" [] ch = "R" -> "r"
          [] ch = "S" -> "s" [] ch = "T" -> "t" [] ch = "U" -> "u"
          [] ch = "V" -> "v" [] ch = "W" -> "w" [] ch = "X" -> "x"
          [] ch = "Y" -> "y" [] ch = "Z" -> "z"]

\* str::to_lowercase, on ASCII text: every upper-case letter is replaced by
\* its lower-case letter, every other character is kept.
to_lowercase(ext) ==
    [i \in 1..Len(ext) |->
        IF ext[i] \in DOMAIN LowerOf THEN LowerOf[ext[i]] ELSE ext[i]]

\* The extensions list_images accepts.
ImageExts ==
    { <<"j", "p", "g">>, <<"j", "p", "e", "g">>, <<"p", "n", "g">>,
      <<"g", "i", "f">>, <<"b", "m", "p">> }

\* The extensions DynamicImage::save has an encoder for (ImageFormat::from_path).
EncodableExts == ImageExts \cup { <<"i", "c", "o">> }

Missing == [kind |-> "missing", w |-> 0, h |-> 0]
Directory == [kind |-> "dir", w |-> 0, h |-> 0]
Locked == [kind |-> "locked", w |-> 0, h |-> 0]
Corrupt == [kind |-> "corrupt", w |-> 0, h |-> 0]
Img(w, h) == [kind |-> "image", w |-> w, h |-> h]

\* Sizes of the image initially at PathA.
InitDims ==
    { <<1, 1>>, <<2, 1>>, <<5, 3>>, <<6, 27>>, <<256, 256>>, <<257, 100>>, <<100, 300>>,
      <<1000, 500>>, <<4096, 2048>>, <<1000, 1>>, <<1000, 5>>,
      <<8388609, 1>>, <<1, 8388609>>, <<16777217, 1>>, <<16777219, 2>> }

\* f32 fractions of a crop request, all in [0.0, 1.0].
Frac0 == F32Zero
FracHalf == F32Half
Frac06 == [m |-> 10066330, e |-> -MantBits]
Frac1 == [m |-> Two23, e |-> 1 - MantBits]

Fracs == {Frac0, FracHalf, Frac06, Frac1}

\* Crop requests <<x, y, width, height>>: every (x, width) with the whole
\* height, every (y, height) with the whole width, and the same pair on both
\* axes.
CropRequests ==
    {<<x, Frac0, w, Frac1>> : x \in Fracs, w \in Fracs}
    \cup {<<Frac0, y, Frac1, h>> : y \in Fracs, h \in Fracs}
    \cup {<<x, x, w, w>> : x \in Fracs, w \in Fracs}

\* Resize requests <<width, height>>.
ResizeRequests == (0..MaxTarget) \X (0..MaxTarget)

\* Byte buffers handed to resize_image_from_data: not an image, or an image.
DataBufs == {Corrupt, Img(2, 1), Img(3, 3)}

DiskStates == {"ok", "readonly", "full"}

VARIABLES
    fs,     \* Paths -> file: what is stored at each path
    disk,   \* whether files can be created and written
    last,   \* the last command: its inputs, its stages and its result
    nops    \* commands run so far

vars == <<fs, disk, last, nops>>

NoCmd ==
    [op |-> "none", path |-> NoPath, status |-> "none", msg |-> "",
     src |-> <<0, 0>>, req |-> <<>>, rect |-> <<>>, resized |-> FALSE,
     asked |-> <<0, 0>>, out |-> <<0, 0>>, wrote |-> NoPath, infos |-> <<>>]

Init ==
    /\ \E a \in {Missing, Corrupt} \cup {Img(d[1], d[2]) : d \in InitDims},
          b \in {Missing, Locked, Corrupt, Img(3, 2)} :
          fs = [p \in Paths |->
                  CASE p = PathA -> a
                    [] p = PathB -> b
                    [] p = PathC -> Corrupt
                    [] p = PathD -> Directory
                    [] OTHER -> Missing]
    /\ disk \in DiskStates
    /\ last = NoCmd
    /\ nops = 0


(***************************************************************************)
(* Stages shared by the commands.                                          *)
(***************************************************************************)

\* ImageReader::open(path)?.decode()?: the stage that fails first, if any.
OpenDecode(path) ==
    IF fs[path].kind \in {"missing", "locked"}
    THEN [ok |-> FALSE, msg |-> "Failed to open image"]
    ELSE IF fs[path].kind # "image"
    THEN [ok |-> FALSE, msg |-> "Failed to decode image"]
    ELSE [ok |-> TRUE, msg |-> ""]

\* DynamicImage::save(path) of a w x h image: whether it succeeds, whether
\* the file was created (truncated) and what is at path afterwards.  The format comes from the extension; the file is
\* created (truncated) before the encoder runs, so a failure of the encoder
\* (an image with an empty side, a full disk) leaves a truncated file.
save(path, w, h) ==
    IF \/ to_lowercase(path[2]) \notin EncodableExts
       \/ fs[path].kind \in {"dir", "locked"}
       \/ disk = "readonly"
    THEN [ok |-> FALSE, created |-> FALSE, file |-> fs[path]]
    ELSE IF w = 0 \/ h = 0 \/ disk = "full"
    THEN [ok |-> FALSE, created |-> TRUE, file |-> Corrupt]
    ELSE [ok |-> TRUE, created |-> TRUE, file |-> Img(w, h)]

Cmd(op, path, req) == [NoCmd EXCEPT !.op = op, !.path = path, !.req = req]

Failed(c, msg) == [c EXCEPT !.status = "err", !.msg = msg]

\* The record of a command that reached its save stage.  wrote is the file
\* the save created or truncated, whatever it held before.
Saved(c, sv, target) ==
    [c EXCEPT !.status = IF sv.ok THEN "ok" ELSE "err",
              !.msg = IF sv.ok THEN "" ELSE "Failed to save image",
              !.wrote = IF sv.created THEN target ELSE NoPath]

ImageInfo(path, width, height) ==
    [path |-> path, name |-> path, width |-> width, height |-> height]

(***************************************************************************)
(* list_images                                                             *)
(***************************************************************************)

\* The orders in which fs::read_dir may yield the entries of the directory:
\* every arrangement of the paths that exist.
read_dir ==
    LET present == {p \in Paths : fs[p].kind # "missing"}
        n == Cardinality(present)
    IN  {entries \in [1..n -> present] :
            \A i, j \in 1..n : entries[i] = entries[j] => i = j}

\* The loop over the directory entries from entry i on.  badEntry is the
\* position at which the directory iterator itself fails (0: nowhere), stale
\* the path whose metadata cannot be read (NoPath: none).
RECURSIVE ListLoop(_, _, _, _, _)
ListLoop(entries, i, images, badEntry, stale) ==
    IF i > Len(entries) THEN [status |-> "ok", msg |-> "", infos |-> images]
    ELSE IF i = badEntry
    THEN [status |-> "err", msg |-> "Failed to read entry", infos |-> <<>>]
    ELSE LET path == entries[i]
             f    == fs[path]
         IN  IF /\ f.kind # "dir"
                /\ path[2] # <<>>
                /\ to_lowercase(path[2]) \in ImageExts
             THEN IF path = stale
                  THEN [status |-> "err", msg |-> "Failed to get metadata",
                        infos |-> <<>>]
                  ELSE IF f.kind = "image"
                  THEN ListLoop(entries, i + 1,
                                Append(images, ImageInfo(path, f.w, f.h)),
                                badEntry, stale)
                  ELSE ListLoop(entries, i + 1, images, badEntry, stale)
             ELSE ListLoop(entries, i + 1, images, badEntry, stale)

\* The directory yields its entries in any of its orders.
list_images(dirOk, badEntry, stale) ==
    /\ nops < MaxOps
    /\ \E entries \in read_dir :
          LET c == Cmd("list_images", NoPath, <<dirOk, badEntry, stale>>)
              r == ListLoop(entries, 1, <<>>, badEntry, stale)
          IN  last' = IF ~dirOk THEN Failed(c, "Failed to read directory")
                      ELSE [c EXCEPT !.status = r.status, !.msg = r.msg,
                                     !.infos = r.infos]
    /\ nops' = nops + 1
    /\ UNCHANGED <<fs, disk>>

(***************************************************************************)
(* resize_image, resize_image_from_data, get_image_info                    *)
(***************************************************************************)

resize_image(path, width, height) ==
    /\ nops < MaxOps
    /\ LET c  == Cmd("resize_image", path, <<width, height>>)
           od == OpenDecode(path)
           f  == fs[path]
           resized == resize(f.w, f.h, width, height)
           sv == save(path, resized[1], resized[2])
       IN  IF ~od.ok
           THEN /\ last' = Failed(c, od.msg)
                /\ fs' = fs
           ELSE /\ last' = Saved([c EXCEPT !.src = <<f.w, f.h>>, !.resized = TRUE,
                                           !.asked = <<width, height>>,
                                           !.out = resized], sv, path)
                /\ fs' = [fs EXCEPT ![path] = sv.file]
    /\ nops' = nops + 1
    /\ UNCHANGED disk

\* data is what the buffer holds.  Reading a Cursor cannot fail, so
\* with_guessed_format does not; write_to a Vec fails only for an encoder
\* error, and resize returns no empty image.
resize_image_from_data(data, width, height) ==
    /\ nops < MaxOps
    /\ LET c == Cmd("resize_image_from_data", NoPath, <<width, height>>)
           resized == resize(data.w, data.h, width, height)
       IN  last' = IF data.kind # "image"
                   THEN Failed(c, "Failed to decode image")
                   ELSE [c EXCEPT !.status = "ok", !.src = <<data.w, data.h>>,
                                  !.resized = TRUE, !.asked = <<width, height>>,
                                  !.out = resized]
    /\ nops' = nops + 1
    /\ UNCHANGED <<fs, disk>>

get_image_info(path, metaOk) ==
    /\ nops < MaxOps
    /\ LET c  == Cmd("get_image_info", path, <<metaOk>>)
           od == OpenDecode(path)
           f  == fs[path]
       IN  last' = IF ~od.ok THEN Failed(c, od.msg)
                   ELSE IF ~metaOk
                   THEN Failed([c EXCEPT !.src = <<f.w, f.h>>], "Failed to get metadata")
                   ELSE [c EXCEPT !.status = "ok", !.src = <<f.w, f.h>>,
                                  !.out = <<f.w, f.h>>,
                                  !.infos = <<ImageInfo(path, f.w, f.h)>>]
    /\ nops' = nops + 1
    /\ UNCHANGED <<fs, disk>>


(***************************************************************************)
(* crop_image                                                              *)
(***************************************************************************)

\* (frac * side as f32 + 0.5) as u32
ToPixel(frac, side) == F32ToU32(F32Add(F32Mul(frac, F32FromU32(side)), F32Half))

\* The size passed to crop_imm on one axis.  side - origin is a u32
\* subtraction: below zero it panics when the build checks overflow and
\* wraps otherwise (the negative number is the wrapped pattern).
FinalCropSize(origin, size, side) ==
    IF origin + size > side THEN side - origin ELSE size

\* The rectangle <<crop_x, crop_y, final_crop_width, final_crop_height>>.
CropRect(original_width, original_height, req) ==
    LET crop_x      == ToPixel(req[1], original_width)
        crop_y      == ToPixel(req[2], original_height)
        crop_width  == ToPixel(req[3], original_width)
        crop_height == ToPixel(req[4], original_height)
    IN  <<crop_x, crop_y,
          FinalCropSize(crop_x, crop_width, original_width),
          FinalCropSize(crop_y, crop_height, original_height)>>

crop_image(path, req, overflow_checks) ==
    /\ nops < MaxOps
    /\ LET c    == Cmd("crop_image", path, req)
           od   == OpenDecode(path)
           f    == fs[path]
           rect == CropRect(f.w, f.h, req)
           cropped == crop_imm(f.w, f.h, rect[1], rect[2], rect[3], rect[4])
           sv   == save(path, cropped[3], cropped[4])
       IN  IF ~od.ok
           THEN /\ last' = Failed(c, od.msg)
                /\ fs' = fs
           ELSE IF overflow_checks /\ (rect[3] < 0 \/ rect[4] < 0)
           THEN /\ last' = [c EXCEPT !.status = "panic", !.src = <<f.w, f.h>>,
                                     !.msg = "attempt to subtract with overflow"]
                /\ fs' = fs
           ELSE /\ last' = Saved([c EXCEPT !.src = <<f.w, f.h>>, !.rect = rect,
                                           !.out = <<cropped[3], cropped[4]>>],
                                 sv, path)
                /\ fs' = [fs EXCEPT ![path] = sv.file]
    /\ nops' = nops + 1
    /\ UNCHANGED disk

(***************************************************************************)
(* save_as                                                                 *)
(***************************************************************************)

\* The largest side an icon may have.
IcoMax == 256

\* <<new_width, new_height>> of the icon branch.
IcoSize(width, height) ==
    LET scale_factor == IF width > height
                        THEN F32Div(F32FromU32(IcoMax), F32FromU32(width))
                        ELSE F32Div(F32FromU32(IcoMax), F32FromU32(height))
    IN  <<F32Round(F32Mul(F32FromU32(width), scale_factor)),
          F32Round(F32Mul(F32FromU32(height), scale_factor))>>

\* NeedsIcoResize comparing the extension as written.
NeedsIcoResizeCaseSensitive(ext, width, height) ==
    ext = <<"i", "c", "o">> /\ (width > IcoMax \/ height > IcoMax)

\* Whether save_as resamples a width x height image saved with extension ext.
NeedsIcoResize(ext, width, height) ==
    to_lowercase(ext) = <<"i", "c", "o">> /\ (width > IcoMax \/ height > IcoMax)

save_as(path, output) ==
    /\ nops < MaxOps
    /\ LET c   == Cmd("save_as", path, <<output>>)
           od  == OpenDecode(path)
           f   == fs[path]
           scaled == NeedsIcoResize(output[2], f.w, f.h)
           new == IcoSize(f.w, f.h)
           processed_img == IF scaled THEN resize(f.w, f.h, new[1], new[2])
                            ELSE <<f.w, f.h>>
           sv  == save(output, processed_img[1], processed_img[2])
       IN  IF ~od.ok
           THEN /\ last' = Failed(c, od.msg)
                /\ fs' = fs
           ELSE /\ last' = Saved([c EXCEPT !.src = <<f.w, f.h>>,
                                           !.resized = scaled,
                                           !.asked = IF scaled THEN new ELSE <<0, 0>>,
                                           !.out = processed_img], sv, output)
                /\ fs' = [fs EXCEPT ![output] = sv.file]
    /\ nops' = nops + 1
    /\ UNCHANGED disk

(***************************************************************************)
(* The commands run one at a time, in any order.                           *)
(***************************************************************************)
Next ==
    \/ \E dirOk \in BOOLEAN, badEntry \in 0..2, stale \in {NoPath, PathA, PathB} :
          list_images(dirOk, badEntry, stale)
    \/ \E path \in Targets, r \in ResizeRequests : resize_image(path, r[1], r[2])
    \/ \E data \in DataBufs, r \in ResizeRequests :
          resize_image_from_data(data, r[1], r[2])
    \/ \E path \in Targets, metaOk \in BOOLEAN : get_image_info(path, metaOk)
    \/ \E path \in Targets, req \in CropRequests, oc \in BOOLEAN :
          crop_image(path, req, oc)
    \/ \E path \in Targets, output \in Outputs : save_as(path, output)

Spec == Init /\ [][Next]_vars

\* save_as alone, from every initial file system.
NextSaveAs == \E path \in Targets, output \in Outputs : save_as(path, output)

SpecSaveAs == Init /\ [][NextSaveAs]_vars


(***************************************************************************)
(* Properties.  "decoded" below: the command got past open and decode, so  *)
(* last.src holds the size of the source image.                            *)
(***************************************************************************)
Decoded == last.src # <<0, 0>>

SrcW == last.src[1]

SrcH == last.src[2]

CropDone == last.op = "crop_image" /\ Decoded

\* floor(frac * side + 1/2) in exact arithmetic: the 49-bit product
\* frac.m * side is held as hi * 2^24 + lo.
ExactHalfUp(frac, side) ==
    IF frac.m = 0 THEN 0
    ELSE LET a1 == frac.m \div 4096
             a0 == frac.m % 4096
             b1 == side \div 4096
             b0 == side % 4096
             cross == a1 * b0 + a0 * b1
             losum == (cross % 4096) * 4096 + a0 * b0
             hi == a1 * b1 + cross \div 4096 + losum \div Two24
             lo == losum % Two24
             k  == -frac.e
         IN  IF k = 23 THEN 2 * hi + (lo + Pow2(22)) \div Two23
             ELSE IF k = 24 THEN hi + (lo + Two23) \div Two24
             ELSE (hi + Pow2(k - 25)) \div Pow2(k - 24)

\* C1: for every source size and every crop request with fractions in
\* [0, 1], the rectangle crop_image passes to the crop lies inside the
\* source (x + width <= W, y + height <= H) and the subtractions W - crop_x,
\* H - crop_y do not go below zero.
C1_CropRectInsideSource ==
    CropDone =>
        /\ last.status # "panic"
        /\ last.rect[3] >= 0 /\ last.rect[4] >= 0
        /\ last.rect[1] + last.rect[3] <= SrcW
        /\ last.rect[2] + last.rect[4] <= SrcH

\* C2: resize_image and resize_image_from_data with a target of positive
\* sides produce an image of exactly the target size.
C2_ResizeIsExact ==
    (/\ last.op \in {"resize_image", "resize_image_from_data"}
     /\ Decoded
     /\ last.asked[1] >= 1 /\ last.asked[2] >= 1)
    => last.out = last.asked

\* The spellings of the icon extension.
IsIcoExt(ext) ==
    /\ Len(ext) = 3
    /\ ext[1] \in {"i", "I"} /\ ext[2] \in {"c", "C"} /\ ext[3] \in {"o", "O"}

Oversized == SrcW > 256 \/ SrcH > 256

SaveAsDone == last.op = "save_as" /\ Decoded

\* C3: saving an image with a side above 256 as an icon encodes an image
\* whose larger side is exactly 256, with both sides at most 256 and the
\* smaller side within one pixel of smaller * 256 / larger.
C3_IconLargerSideIs256 ==
    (SaveAsDone /\ IsIcoExt(last.req[1][2]) /\ Oversized) =>
        LET larger  == Max(SrcW, SrcH)
            smaller == IF SrcW >= SrcH THEN SrcH ELSE SrcW
            outL    == IF SrcW >= SrcH THEN last.out[1] ELSE last.out[2]
            outS    == IF SrcW >= SrcH THEN last.out[2] ELSE last.out[1]
        IN  /\ outL = 256
            /\ outS <= 256
            /\ outS * larger - smaller * 256 <= larger
            /\ smaller * 256 - outS * larger <= larger

\* The images list_images is to return: the regular files with a listed
\* extension that hold an image and whose metadata can be read.
Listable(stale) ==
    {p \in Paths : /\ fs[p].kind = "image"
                   /\ p[2] \in {<<"p", "n", "g">>, <<"J", "P", "G">>,
                                 <<"b", "m", "p">>}
                   /\ p # stale}

\* C4: when the directory can be read, list_images succeeds and returns
\* exactly the valid images: a file that fails to open, to decode or to give
\* its metadata is left out and does not fail the call.
C4_ListSkipsFailingFiles ==
    (last.op = "list_images" /\ last.req[1] /\ last.req[2] = 0) =>
        /\ last.status = "ok"
        /\ {last.infos[i].path : i \in 1..Len(last.infos)} = Listable(last.req[3])
        /\ Len(last.infos) = Cardinality(Listable(last.req[3]))

\* C5: a resize request with a zero width or height is rejected: an error
\* is returned, no file is written and no image is produced.
C5_ZeroTargetRejected ==
    (/\ last.op \in {"resize_image", "resize_image_from_data"}
     /\ (last.req[1] = 0 \/ last.req[2] = 0))
    => (last.status = "err" /\ last.wrote = NoPath /\ last.out = <<0, 0>>)

\* The size the claim describes for one axis.
ClampedSize(origin, size, side) == IF origin + size > side THEN side - origin ELSE size

\* C6: the crop origin is floor(x*W + 0.5), floor(y*H + 0.5) and is never
\* moved; the size on an axis is floor(w*W + 0.5), reduced to exactly
\* (source size - origin) when origin + size exceeds the source.
C6_CropOriginRoundHalfUp ==
    CropDone =>
        LET x0 == ExactHalfUp(last.req[1], SrcW)
            y0 == ExactHalfUp(last.req[2], SrcH)
            w0 == ExactHalfUp(last.req[3], SrcW)
            h0 == ExactHalfUp(last.req[4], SrcH)
        IN  /\ last.status # "panic"
            /\ last.rect[1] = x0 /\ last.rect[2] = y0
            /\ last.rect[3] >= 0 /\ last.rect[4] >= 0
            /\ last.rect[3] = ClampedSize(x0, w0, SrcW)
            /\ last.rect[4] = ClampedSize(y0, h0, SrcH)

\* C7: in the icon branch of save_as the sides handed to resize are both
\* at least 1.
C7_IconSidesNonZero ==
    (SaveAsDone /\ last.resized) => (last.asked[1] >= 1 /\ last.asked[2] >= 1)

\* C8: save_as resamples exactly when the destination extension is the icon
\* format (in any letter case) and a side of the source exceeds 256;
\* otherwise the image encoded has the size of the decoded source.
C8_ResampleOnlyOversizedIcon ==
    SaveAsDone =>
        /\ last.resized <=> (IsIcoExt(last.req[1][2]) /\ Oversized)
        /\ ~(IsIcoExt(last.req[1][2]) /\ Oversized) => last.out = last.src

\* C8 witness: an oversized image saved to a mixed-case .Ico was resampled,
\* and the file was written.
C8_Witness ==
    /\ SaveAsDone /\ last.req[1][2] = <<"I", "c", "o">> /\ SrcW > 256
    /\ last.resized /\ last.status = "ok" /\ last.out = <<256, 128>>

\* C9: cropping with the rect (0, 0, 1, 1) passes the rectangle
\* (0, 0, W, H) and yields an image of the source's size.
C9_FullCropIsIdentity ==
    (CropDone /\ last.req = <<Frac0, Frac0, Frac1, Frac1>>) =>
        /\ last.status # "panic"
        /\ last.rect = <<0, 0, SrcW, SrcH>>
        /\ last.out = last.src

SingleOps ==
    {"resize_image", "crop_image", "save_as", "get_image_info",
     "resize_image_from_data"}

\* What a command that failed at open or decode leaves behind: no later
\* stage ran.
StoppedEarly(c) ==
    /\ c.status = "err" /\ c.src = <<0, 0>> /\ c.rect = <<>> /\ ~c.resized
    /\ c.out = <<0, 0>> /\ c.wrote = NoPath /\ c.infos = <<>>

C10_Step ==
    (last' # last /\ last'.op \in SingleOps) =>
        LET c == last'
        IN  /\ nops' = nops + 1
            /\ c.status \in {"ok", "err"}
            /\ c.path # NoPath =>
                 /\ fs[c.path].kind \in {"missing", "locked"} =>
                      (c.msg = "Failed to open image" /\ StoppedEarly(c) /\ fs' = fs)
                 /\ fs[c.path].kind = "corrupt" =>
                      (c.msg = "Failed to decode image" /\ StoppedEarly(c) /\ fs' = fs)
                 /\ fs[c.path].kind = "image" => c.src = <<fs[c.path].w, fs[c.path].h>>
            /\ c.status = "err" =>
                 c.msg \in {"Failed to open image", "Failed to decode image",
                            "Failed to get metadata", "Failed to save image"}
            /\ (c.status = "err" /\ c.src = <<0, 0>>) => (StoppedEarly(c) /\ fs' = fs)
            /\ c.msg = "Failed to save image" => (c.status = "err" /\ c.src # <<0, 0>>)
            /\ c.status = "ok" => c.msg = ""
            /\ \A p \in Paths : fs'[p] # fs[p] => c.wrote = p

\* C10: a single-target command ends with its result or with an error; it
\* stops at the first stage that fails, open before decode before the
\* transform and the save, and the error names that stage; after a failed
\* open or decode nothing later has run and no file has changed; a command
\* is one step, never run again.
C10_FirstFailureStops == [][C10_Step]_vars

=============================================================================
